---- MODULE Spec2Model ----
(***************************************************************************)
(* Control logic of the toy elevator (src/src/elevator.rs): the car state  *)
(* machine Elevator with its per-tick handler advance(), the floor         *)
(* selection goto_next_floor() and the manual door override                *)
(* set_door_open().                                                        *)
(*                                                                         *)
(* usize values are held as their 32-bit two's-complement bit patterns     *)
(* (the target is a 32-bit Cortex-M0+): usize::MAX is -1 and the unsigned  *)
(* order is UsizeLt.  u8 progress values are held as 0..255.               *)
(***************************************************************************)
EXTENDS Integers, Sequences, FiniteSets, TLC

\* ---------------------------------------------------------------- bounds
\* At most MaxPressed call inputs are asserted during one tick.
MaxPressed == 2
\* Call inputs are asserted only while at most MaxPending requests result.
MaxPending == 2

\* ------------------------------------------------------ floor table
NumFloors == 8

FloorIndices == 0 .. (NumFloors - 1)

\* floors[i].number, as configured by the driver
FloorNumber(i) == <<-2, -1, 1, 2, 3, 4, 5, 6>>[i + 1]

\* floors[i].pronunciation, the arrival cue of floor i
Pronunciation(i) ==
    << "chi'ka/<NUMK VAL=2 COUNTER=kai>de'su,",
       "chi'ka/<NUMK VAL=1 COUNTER=kai>de'su,",
       "<NUMK VAL=1 COUNTER=kai>de'su,",
       "<NUMK VAL=2 COUNTER=kai>de'su,",
       "<NUMK VAL=3 COUNTER=kai>de'su,",
       "<NUMK VAL=4 COUNTER=kai>de'su,",
       "<NUMK VAL=5 COUNTER=kai>de'su,",
       "<NUMK VAL=6 COUNTER=kai>de'su," >>[i + 1]

CueUp == "ueni/mairima'_su,"
CueDown == "shitani/mairima'_su,"
CueDoorClosing == "do'aga/shimarima'_su."

\* ------------------------------------------------------ value types
\* Option<u8>
None == <<>>
Some(p) == <<p>>
IsSome(v) == Len(v) = 1
Unwrap(v) == v[1]

\* enum Direction
Up(v) == [tag |-> "Up", value |-> v]
Down(v) == [tag |-> "Down", value |-> v]
Idle == [tag |-> "Idle", value |-> None]

\* enum DoorState (Closed carries no progress; the field is held at 0)
Opening(p) == [tag |-> "Opening", progress |-> p]
Open(p) == [tag |-> "Open", progress |-> p]
Closing(p) == [tag |-> "Closing", progress |-> p]
Closed == [tag |-> "Closed", progress |-> 0]

\* ------------------------------------------------------ machine integers
\* a < b on usize bit patterns
UsizeLt(a, b) == IF (a < 0) = (b < 0) THEN a < b ELSE b < 0

\* a - b on usize underflows exactly when a < b (unsigned)
UsizeSubUnderflows(a, b) == UsizeLt(a, b)

\* the wrapped result of a - b on usize (operands are small bit patterns)
UsizeWrappingSub(a, b) == a - b

\* a + b on u8 overflows above u8::MAX
U8AddOverflows(a, b) == a + b > 255

U8WrappingAdd(a, b) == (a + b) % 256

\* ------------------------------------------------------ state
VARIABLES
    current_floor_index,  \* Elevator.current_floor_index (usize)
    direction,            \* Elevator.direction
    door,                 \* Elevator.door
    stop,                 \* floors[i].stop, i in FloorIndices
    led,                  \* the LED of floors[i].button: TRUE when turned on
    fault,                \* "none", or the panic that stopped the program
    overflow_checks,      \* whether the build panics on integer overflow
    ticks                 \* iterations of the driver loop since the progress
                          \* shown was 0 (counted by SpecTimed only; negative
                          \* once an override has set a progress above 0)

vars == <<current_floor_index, direction, door, stop, led, fault,
          overflow_checks, ticks>>

\* The Elevator as a record, with the notifications of the call in progress:
\* repaints counts the calls of the repaint sink, announced lists the cues
\* handed to the announce sink (both taken as registered).
Car == [current_floor_index |-> current_floor_index, direction |-> direction,
        door |-> door, stop |-> stop, led |-> led, fault |-> fault,
        repaints |-> 0, announced |-> <<>>]

Panic(s, what) == [s EXCEPT !.fault = what]

\* ------------------------------------------------------ setters
\* set_direction without the early return on an unchanged value
set_direction_NoCheck(s, d) ==
    [s EXCEPT !.direction = d, !.repaints = @ + 1]

set_direction(s, d) ==
    IF s.direction = d THEN s
    ELSE [s EXCEPT !.direction = d, !.repaints = @ + 1]

\* set_door without the early return on an unchanged value
set_door_NoCheck(s, d) ==
    [s EXCEPT !.door = d, !.repaints = @ + 1]

set_door(s, d) ==
    IF s.door = d THEN s
    ELSE [s EXCEPT !.door = d, !.repaints = @ + 1]

set_current_floor_index(s, index) ==
    IF s.current_floor_index = index THEN s
    ELSE [s EXCEPT !.current_floor_index = index, !.repaints = @ + 1]

announce(s, cue) == [s EXCEPT !.announced = Append(@, cue)]

\* ------------------------------------------------------ floor selection
\* floors[lo..hi).iter().position(|f| f.stop): the offset within the slice
\* of its first floor with stop set
Position(s, lo, hi) ==
    LET hits == {k \in FloorIndices : lo <= k /\ k < hi /\ s.stop[k]}
    IN  IF hits = {} THEN None
        ELSE Some((CHOOSE k \in hits : \A j \in hits : k <= j) - lo)

\* the direction goto_next_floor selects from Idle when both slices hold a stop
IdleBothDirection(index, upper, lower) ==
    IF UsizeLt(UsizeWrappingSub(Unwrap(upper), index),
               UsizeWrappingSub(index, Unwrap(lower)))
    THEN Up(Some(0))
    ELSE Down(Some(0))

\* Commit that sets the direction without announcing it
Commit_Silent(s, d) == set_direction(s, d)

\* the announcement and the set_direction that end goto_next_floor
Commit(s, d) ==
    LET a == CASE d.tag = "Up" -> announce(s, CueUp)
               [] d.tag = "Down" -> announce(s, CueDown)
               [] OTHER -> s
    IN  set_direction(a, d)

\* SelectFromUp with the two slices tried in the wrong order
SelectFromUp_LowerFirst(upper, lower) ==
    IF IsSome(lower) THEN Down(Some(0))
    ELSE IF IsSome(upper) THEN Up(Some(0))
    ELSE Idle

\* the direction goto_next_floor selects while the car is going up
SelectFromUp(upper, lower) ==
    IF IsSome(upper) THEN Up(Some(0))
    ELSE IF IsSome(lower) THEN Down(Some(0))
    ELSE Idle

\* the direction goto_next_floor selects while the car is going down
SelectFromDown(upper, lower) ==
    IF IsSome(lower) THEN Down(Some(0))
    ELSE IF IsSome(upper) THEN Up(Some(0))
    ELSE Idle

goto_next_floor(s, checks) ==
    LET index == s.current_floor_index
        upper == Position(s, index, NumFloors)
        lower == Position(s, 0, index)
    IN  CASE ~(0 <= index /\ index <= NumFloors) ->
               Panic(s, "index_out_of_bounds")
          [] s.direction.tag = "Up" -> Commit(s, SelectFromUp(upper, lower))
          [] s.direction.tag = "Down" -> Commit(s, SelectFromDown(upper, lower))
          [] OTHER ->
               IF IsSome(upper) /\ IsSome(lower)
               THEN IF checks /\ (UsizeSubUnderflows(Unwrap(upper), index)
                                  \/ UsizeSubUnderflows(index, Unwrap(lower)))
                    THEN Panic(s, "overflow")
                    ELSE Commit(s, IdleBothDirection(index, upper, lower))
               ELSE IF IsSome(upper) THEN Commit(s, Up(Some(0)))
               ELSE IF IsSome(lower) THEN Commit(s, Down(Some(0)))
               ELSE Commit(s, Idle)

\* ------------------------------------------------------ advance
\* CallCapture that forgets button.turn_on()
RECURSIVE CallCapture_NoLed(_, _, _)
CallCapture_NoLed(s, pressed, index) ==
    IF index = NumFloors THEN [car |-> s, returned |-> FALSE]
    ELSE IF index \in pressed /\ ~s.stop[index]
    THEN LET t == [s EXCEPT !.stop[index] = TRUE]
         IN  IF t.direction = Idle /\ t.current_floor_index = index
             THEN [car |-> set_door(t, Opening(0)), returned |-> TRUE]
             ELSE CallCapture_NoLed(t, pressed, index + 1)
    ELSE CallCapture_NoLed(s, pressed, index + 1)

\* CallCapture that opens the door for an own-floor call without returning
RECURSIVE CallCapture_NoReturn(_, _, _)
CallCapture_NoReturn(s, pressed, index) ==
    IF index = NumFloors THEN [car |-> s, returned |-> FALSE]
    ELSE IF index \in pressed /\ ~s.stop[index]
    THEN LET t == [s EXCEPT !.stop[index] = TRUE, !.led[index] = TRUE]
         IN  IF t.direction = Idle /\ t.current_floor_index = index
             THEN CallCapture_NoReturn(set_door(t, Opening(0)), pressed,
                                       index + 1)
             ELSE CallCapture_NoReturn(t, pressed, index + 1)
    ELSE CallCapture_NoReturn(s, pressed, index + 1)

\* CallCapture without the `!floor.stop` test
RECURSIVE CallCapture_Recapture(_, _, _)
CallCapture_Recapture(s, pressed, index) ==
    IF index = NumFloors THEN [car |-> s, returned |-> FALSE]
    ELSE IF index \in pressed
    THEN LET t == [s EXCEPT !.stop[index] = TRUE, !.led[index] = TRUE]
         IN  IF t.direction = Idle /\ t.current_floor_index = index
             THEN [car |-> set_door(t, Opening(0)), returned |-> TRUE]
             ELSE CallCapture_Recapture(t, pressed, index + 1)
    ELSE CallCapture_Recapture(s, pressed, index + 1)

\* the loop over floors.iter_mut().enumerate() from `index` on; returned is
\* TRUE when the loop left advance() through its return
RECURSIVE CallCapture(_, _, _)
CallCapture(s, pressed, index) ==
    IF index = NumFloors THEN [car |-> s, returned |-> FALSE]
    ELSE IF index \in pressed /\ ~s.stop[index]
    THEN LET t == [s EXCEPT !.stop[index] = TRUE, !.led[index] = TRUE]
         IN  IF t.direction = Idle /\ t.current_floor_index = index
             THEN [car |-> set_door(t, Opening(0)), returned |-> TRUE]
             ELSE CallCapture(t, pressed, index + 1)
    ELSE CallCapture(s, pressed, index + 1)

\* progress + step on u8 panics in a build with overflow checks
StepPanics(progress, step, checks) == U8AddOverflows(progress, step) /\ checks

\* DoorOpening that clears the stop flag as soon as the door is open
DoorOpening_ClearsStop(s, checks) ==
    LET progress == s.door.progress
        index == s.current_floor_index
    IN  IF progress = 100
        THEN set_door([s EXCEPT !.stop[index] = FALSE, !.led[index] = FALSE],
                      Open(0))
        ELSE IF progress = 0
        THEN set_door(announce(s, Pronunciation(index)),
                      Opening(U8WrappingAdd(progress, 5)))
        ELSE set_door(s, Opening(U8WrappingAdd(progress, 5)))

DoorOpening(s, checks) ==
    LET progress == s.door.progress
    IN  IF progress = 100 THEN set_door(s, Open(0))
        ELSE IF progress = 0
        THEN IF s.current_floor_index \notin FloorIndices
             THEN Panic(s, "index_out_of_bounds")
             ELSE IF StepPanics(progress, 5, checks)
             THEN Panic(announce(s, Pronunciation(s.current_floor_index)),
                        "overflow")
             ELSE set_door(announce(s, Pronunciation(s.current_floor_index)),
                           Opening(U8WrappingAdd(progress, 5)))
        ELSE IF StepPanics(progress, 5, checks) THEN Panic(s, "overflow")
        ELSE set_door(s, Opening(U8WrappingAdd(progress, 5)))

\* DoorOpen with the step of the Opening and Closing phases
DoorOpen_StepFive(s, checks) ==
    LET progress == s.door.progress
    IN  IF progress = 100 THEN set_door(s, Closing(0))
        ELSE IF StepPanics(progress, 5, checks) THEN Panic(s, "overflow")
        ELSE set_door(s, Open(U8WrappingAdd(progress, 5)))

\* DoorOpen that hands its progress on to the Closing phase
DoorOpen_KeepsProgress(s, checks) ==
    LET progress == s.door.progress
    IN  IF progress = 100 THEN set_door(s, Closing(progress))
        ELSE IF StepPanics(progress, 2, checks) THEN Panic(s, "overflow")
        ELSE set_door(s, Open(U8WrappingAdd(progress, 2)))

DoorOpen(s, checks) ==
    LET progress == s.door.progress
    IN  IF progress = 100 THEN set_door(s, Closing(0))
        ELSE IF StepPanics(progress, 2, checks) THEN Panic(s, "overflow")
        ELSE set_door(s, Open(U8WrappingAdd(progress, 2)))

\* DoorClosing that leaves the served floor's stop flag and LED set
DoorClosing_KeepsStop(s, checks) ==
    LET progress == s.door.progress
    IN  IF progress = 100 THEN set_door(s, Closed)
        ELSE IF progress = 0
        THEN set_door(announce(s, CueDoorClosing),
                      Closing(U8WrappingAdd(progress, 5)))
        ELSE set_door(s, Closing(U8WrappingAdd(progress, 5)))

\* DoorClosing that clears the stop flag but forgets button.turn_off()
DoorClosing_LedLeftOn(s, checks) ==
    LET progress == s.door.progress
        index == s.current_floor_index
    IN  IF progress = 100
        THEN set_door([s EXCEPT !.stop[index] = FALSE], Closed)
        ELSE IF progress = 0
        THEN set_door(announce(s, CueDoorClosing),
                      Closing(U8WrappingAdd(progress, 5)))
        ELSE set_door(s, Closing(U8WrappingAdd(progress, 5)))

DoorClosing(s, checks) ==
    LET progress == s.door.progress
        index == s.current_floor_index
    IN  IF progress = 100
        THEN IF index \notin FloorIndices THEN Panic(s, "index_out_of_bounds")
             ELSE IF s.stop[index]
             THEN set_door([s EXCEPT !.stop[index] = FALSE,
                                     !.led[index] = FALSE], Closed)
             ELSE set_door(s, Closed)
        ELSE IF progress = 0
        THEN IF StepPanics(progress, 5, checks)
             THEN Panic(announce(s, CueDoorClosing), "overflow")
             ELSE set_door(announce(s, CueDoorClosing),
                           Closing(U8WrappingAdd(progress, 5)))
        ELSE IF StepPanics(progress, 5, checks) THEN Panic(s, "overflow")
        ELSE set_door(s, Closing(U8WrappingAdd(progress, 5)))

\* the direction set on arriving at the requested floor `index` going up
ArrivedUpDirection(s, index) ==
    IF index = NumFloors - 1
    THEN IF IsSome(Position(s, 0, index)) THEN Down(None) ELSE Idle
    ELSE Up(None)

\* the direction set on arriving at the requested floor `index` going down
ArrivedDownDirection(s, index) ==
    IF index = 0
    THEN IF IsSome(Position(s, 1, NumFloors)) THEN Up(None) ELSE Idle
    ELSE Down(None)

\* MoveUp with a step that does not divide 100
MoveUp_StepThree(s, checks) ==
    IF IsSome(s.direction.value)
    THEN LET progress == Unwrap(s.direction.value)
         IN  IF progress = 100
             THEN LET index == s.current_floor_index + 1
                      a == set_current_floor_index(s, index)
                  IN  IF index \notin FloorIndices
                      THEN Panic(a, "index_out_of_bounds")
                      ELSE IF a.stop[index]
                      THEN set_direction(set_door(a, Opening(0)),
                                         ArrivedUpDirection(a, index))
                      ELSE set_direction(a, Up(Some(0)))
             ELSE IF StepPanics(progress, 3, checks) THEN Panic(s, "overflow")
             ELSE set_direction(s, Up(Some(U8WrappingAdd(progress, 3))))
    ELSE goto_next_floor(s, checks)

\* MoveUp that opens the door at every floor it arrives at
MoveUp_StopsEverywhere(s, checks) ==
    IF IsSome(s.direction.value)
    THEN LET progress == Unwrap(s.direction.value)
         IN  IF progress = 100
             THEN LET index == s.current_floor_index + 1
                      a == set_current_floor_index(s, index)
                  IN  IF index \notin FloorIndices
                      THEN Panic(a, "index_out_of_bounds")
                      ELSE set_direction(set_door(a, Opening(0)),
                                         ArrivedUpDirection(a, index))
             ELSE IF StepPanics(progress, 2, checks) THEN Panic(s, "overflow")
             ELSE set_direction(s, Up(Some(U8WrappingAdd(progress, 2))))
    ELSE goto_next_floor(s, checks)

MoveUp(s, checks) ==
    IF IsSome(s.direction.value)
    THEN LET progress == Unwrap(s.direction.value)
         IN  IF progress = 100
             THEN LET index == s.current_floor_index + 1
                      a == set_current_floor_index(s, index)
                  IN  IF index \notin FloorIndices
                      THEN Panic(a, "index_out_of_bounds")
                      ELSE IF a.stop[index]
                      THEN set_direction(set_door(a, Opening(0)),
                                         ArrivedUpDirection(a, index))
                      ELSE set_direction(a, Up(Some(0)))
             ELSE IF StepPanics(progress, 2, checks) THEN Panic(s, "overflow")
             ELSE set_direction(s, Up(Some(U8WrappingAdd(progress, 2))))
    ELSE goto_next_floor(s, checks)

\* MoveDown with the step of the door phases
MoveDown_StepFive(s, checks) ==
    IF IsSome(s.direction.value)
    THEN LET progress == Unwrap(s.direction.value)
         IN  IF progress = 100
             THEN IF UsizeSubUnderflows(s.current_floor_index, 1) /\ checks
                  THEN Panic(s, "overflow")
                  ELSE LET index == UsizeWrappingSub(s.current_floor_index, 1)
                           a == set_current_floor_index(s, index)
                       IN  IF index \notin FloorIndices
                           THEN Panic(a, "index_out_of_bounds")
                           ELSE IF a.stop[index]
                           THEN set_direction(set_door(a, Opening(0)),
                                              ArrivedDownDirection(a, index))
                           ELSE set_direction(a, Down(Some(0)))
             ELSE IF StepPanics(progress, 5, checks) THEN Panic(s, "overflow")
             ELSE set_direction(s, Down(Some(U8WrappingAdd(progress, 5))))
    ELSE goto_next_floor(s, checks)

MoveDown(s, checks) ==
    IF IsSome(s.direction.value)
    THEN LET progress == Unwrap(s.direction.value)
         IN  IF progress = 100
             THEN IF UsizeSubUnderflows(s.current_floor_index, 1) /\ checks
                  THEN Panic(s, "overflow")
                  ELSE LET index == UsizeWrappingSub(s.current_floor_index, 1)
                           a == set_current_floor_index(s, index)
                       IN  IF index \notin FloorIndices
                           THEN Panic(a, "index_out_of_bounds")
                           ELSE IF a.stop[index]
                           THEN set_direction(set_door(a, Opening(0)),
                                              ArrivedDownDirection(a, index))
                           ELSE set_direction(a, Down(Some(0)))
             ELSE IF StepPanics(progress, 2, checks) THEN Panic(s, "overflow")
             ELSE set_direction(s, Down(Some(U8WrappingAdd(progress, 2))))
    ELSE goto_next_floor(s, checks)

\* the match on self.door that follows the call-capture loop
AfterCapture(s, checks) ==
    CASE s.door.tag = "Opening" -> DoorOpening(s, checks)
      [] s.door.tag = "Open" -> DoorOpen(s, checks)
      [] s.door.tag = "Closing" -> DoorClosing(s, checks)
      [] OTHER ->
           CASE s.direction.tag = "Up" -> MoveUp(s, checks)
             [] s.direction.tag = "Down" -> MoveDown(s, checks)
             [] OTHER -> goto_next_floor(s, checks)

\* Elevator::advance with the call inputs of the floors in `pressed` asserted
advance(s, pressed, checks) ==
    LET c == CallCapture(s, pressed, 0)
    IN  IF c.returned THEN c.car ELSE AfterCapture(c.car, checks)

\* ------------------------------------------------------ set_door_open
\* set_door_open that opens a Closed door whatever the direction
set_door_open_IgnoresDirection(s, value) ==
    IF value
    THEN CASE s.door.tag = "Opening" -> [car |-> s, ret |-> FALSE]
           [] s.door.tag = "Open" -> [car |-> set_door(s, Open(0)), ret |-> TRUE]
           [] s.door.tag = "Closing" ->
                [car |-> set_door(s, Opening(100 - s.door.progress)),
                 ret |-> TRUE]
           [] OTHER -> [car |-> set_door(s, Opening(0)), ret |-> TRUE]
    ELSE CASE s.door.tag = "Open" ->
                [car |-> set_door(s, Closing(0)), ret |-> TRUE]
           [] OTHER -> [car |-> s, ret |-> FALSE]

\* set_door_open that reopens a closing door from the start
set_door_open_ReopensFromZero(s, value) ==
    IF value
    THEN CASE s.door.tag = "Opening" -> [car |-> s, ret |-> FALSE]
           [] s.door.tag = "Open" -> [car |-> set_door(s, Open(0)), ret |-> TRUE]
           [] s.door.tag = "Closing" ->
                [car |-> set_door(s, Opening(0)), ret |-> TRUE]
           [] OTHER ->
                IF s.direction = Idle
                THEN [car |-> set_door(s, Opening(0)), ret |-> TRUE]
                ELSE [car |-> s, ret |-> FALSE]
    ELSE CASE s.door.tag = "Open" ->
                [car |-> set_door(s, Closing(0)), ret |-> TRUE]
           [] OTHER -> [car |-> s, ret |-> FALSE]

\* Elevator::set_door_open: the car afterwards and the value returned
set_door_open(s, value) ==
    IF value
    THEN CASE s.door.tag = "Opening" -> [car |-> s, ret |-> FALSE]
           [] s.door.tag = "Open" -> [car |-> set_door(s, Open(0)), ret |-> TRUE]
           [] s.door.tag = "Closing" ->
                [car |-> set_door(s, Opening(100 - s.door.progress)),
                 ret |-> TRUE]
           [] OTHER ->
                IF s.direction = Idle
                THEN [car |-> set_door(s, Opening(0)), ret |-> TRUE]
                ELSE [car |-> s, ret |-> FALSE]
    ELSE CASE s.door.tag = "Open" ->
                [car |-> set_door(s, Closing(0)), ret |-> TRUE]
           [] OTHER -> [car |-> s, ret |-> FALSE]

\* ------------------------------------------------------ the program
\* Elevator::floor_to_index
floor_to_index(floor) == CHOOSE i \in FloorIndices : FloorNumber(i) = floor

\* Elevator::new on the driver's floor table; the build is either one
Init ==
    /\ current_floor_index = floor_to_index(1)
    /\ direction = Idle
    /\ door = Closed
    /\ stop = [i \in FloorIndices |-> FALSE]
    /\ led = [i \in FloorIndices |-> FALSE]
    /\ fault = "none"
    /\ overflow_checks \in BOOLEAN
    /\ ticks = 0

Requested == {i \in FloorIndices : stop[i]}

\* the sets of call inputs that can be asserted together
CallSets == {P \in SUBSET FloorIndices : Cardinality(P) <= MaxPressed}

\* the call inputs the driver may find asserted during one tick
PressedSets ==
    {P \in CallSets : Cardinality(Requested \cup P) <= MaxPending}

\* the car's fields after a call
StoreFields(s) ==
    /\ current_floor_index' = s.current_floor_index
    /\ direction' = s.direction
    /\ door' = s.door
    /\ stop' = s.stop
    /\ led' = s.led
    /\ fault' = s.fault
    /\ UNCHANGED overflow_checks

Store(s) == StoreFields(s) /\ UNCHANGED ticks

\* one iteration of the driver loop calls advance()
Advance(pressed) ==
    /\ fault = "none"
    /\ Store(advance(Car, pressed, overflow_checks))

\* the driver calls set_door_open(value) for an auxiliary button
SetDoorOpen(value) ==
    /\ fault = "none"
    /\ Store(set_door_open(Car, value).car)

Next ==
    \/ \E pressed \in PressedSets : Advance(pressed)
    \/ \E value \in BOOLEAN : SetDoorOpen(value)

Spec == Init /\ [][Next]_vars

\* ------------------------------------------------------ request_stop
\* The driver's call elevator.set_stop(level, true), request_stop in the
\* specification: marks the floor at `level` requested and lights its
\* indicator unless it is requested already or no floor has that level.
\* request_stop that looks the level up with floor_to_index's unwrap()
request_stop_Unwraps(s, level) ==
    IF \A i \in FloorIndices : FloorNumber(i) # level
    THEN [car |-> Panic(s, "unwrap_none"), ret |-> FALSE]
    ELSE IF ~s.stop[floor_to_index(level)]
    THEN LET i == floor_to_index(level)
         IN  [car |-> [s EXCEPT !.stop[i] = TRUE, !.led[i] = TRUE],
              ret |-> TRUE]
    ELSE [car |-> s, ret |-> FALSE]

request_stop(s, level) ==
    IF \E i \in FloorIndices : FloorNumber(i) = level /\ ~s.stop[i]
    THEN LET i == floor_to_index(level)
         IN  [car |-> [s EXCEPT !.stop[i] = TRUE, !.led[i] = TRUE],
              ret |-> TRUE]
    ELSE [car |-> s, ret |-> FALSE]

\* the levels the driver passes here: the bottom floor, the floor the car
\* starts at, level 3, the top floor, and 0, the level of no floor
Levels == {-2, 1, 3, 6, 0}

RequestStop(level) ==
    /\ fault = "none"
    /\ LET s == request_stop(Car, level).car
       IN  /\ Cardinality({i \in FloorIndices : s.stop[i]}) <= MaxPending
           /\ Store(s)

NextRequest ==
    \/ Next
    \/ \E level \in Levels : RequestStop(level)

SpecRequest == Init /\ [][NextRequest]_vars

\* ------------------------------------------------------ scenario B
\* the car as constructed: idle, closed, at level 1, nothing requested
AtRest ==
    /\ current_floor_index = floor_to_index(1)
    /\ direction = Idle
    /\ door = Closed
    /\ Requested = {}

\* The call input of level 3 is asserted during the first tick and no
\* input is asserted afterwards; the driver loop never stops ticking.
NextScenarioB ==
    \/ AtRest /\ Advance({floor_to_index(3)})
    \/ ~AtRest /\ Advance({})

SpecScenarioB ==
    Init /\ [][NextScenarioB]_vars /\ WF_vars(NextScenarioB)

\* ------------------------------------------------------ tick count
\* the progress the car shows: of the door phase while the door is not
\* Closed, else of the leg, else none
Progress(s) ==
    IF s.door.tag # "Closed" THEN s.door.progress
    ELSE IF IsSome(s.direction.value) THEN Unwrap(s.direction.value)
    ELSE 0

\* one iteration of the driver loop, counted
AdvanceTimed(pressed) ==
    /\ fault = "none"
    /\ LET s == advance(Car, pressed, overflow_checks)
       IN  /\ StoreFields(s)
           /\ ticks' = IF Progress(s) = 0 THEN 0
                       ELSE IF ticks < 0 THEN ticks
                       ELSE ticks + 1

\* the override between two iterations: it restarts the count when it sets
\* a progress of 0 and spoils it when it sets another progress
SetDoorOpenTimed(value) ==
    /\ fault = "none"
    /\ LET s == set_door_open(Car, value).car
       IN  /\ StoreFields(s)
           /\ ticks' = IF s.door = door THEN ticks
                       ELSE IF Progress(s) = 0 THEN 0
                       ELSE -1

NextTimed ==
    \/ \E pressed \in PressedSets : AdvanceTimed(pressed)
    \/ \E value \in BOOLEAN : SetDoorOpenTimed(value)

SpecTimed == Init /\ [][NextTimed]_vars

\* ------------------------------------------------------ the loop goes on
\* The driver loop never ends: advance() keeps being called (after a panic
\* the handler spins and no tick is enabled any more).
Tick == \E pressed \in PressedSets : Advance(pressed)

SpecFair == Init /\ [][Next]_vars /\ WF_vars(Tick)

\* ------------------------------------------------------ claims
RequestedAbove(i) == \E k \in FloorIndices : k > i /\ stop[k]

RequestedBelow(i) == \E k \in FloorIndices : k < i /\ stop[k]

InTransit ==
    /\ direction.tag \in {"Up", "Down"}
    /\ IsSome(direction.value)
    /\ 0 < Unwrap(direction.value)
    /\ Unwrap(direction.value) < 100

\* C1: in every reachable state current_floor_index is a valid index into
\* the floor table; the car never steps above the top floor or below the
\* bottom floor.
C1_IndexValid == current_floor_index \in FloorIndices

\* C2: whenever direction is Up(Some(p)) or Down(Some(p)) with 0 < p < 100
\* the door is Closed.
C2_ClosedInTransit == InTransit => door = Closed

\* the car is between floors while the floor it left has been called
C2_Witness ==
    /\ direction = Down(Some(50))
    /\ door = Closed
    /\ stop[current_floor_index]
    /\ RequestedBelow(current_floor_index)

\* C3: advance() never fails: no call of advance() ends in a panic (an
\* out-of-range floor-table access or an integer overflow), so the program
\* is never stopped by one.
C3_AdvanceInfallible == fault = "none"

\* C4: while direction is Up(_) and a floor above current_floor_index is
\* requested no step changes direction to Down(_) or Idle; while direction
\* is Down(_) and a floor below is requested no step changes it to Up(_) or
\* Idle.
C4_LookOrdering ==
    [][/\ (direction.tag = "Up" /\ RequestedAbove(current_floor_index))
          => direction'.tag = "Up"
       /\ (direction.tag = "Down" /\ RequestedBelow(current_floor_index))
          => direction'.tag = "Down"]_vars

\* C4 as amended: the requests that keep the direction are those beyond the
\* floor the car is at when the step ends, so that arriving at the last
\* requested floor of the run may set the direction for the next run.
C4_LookOrderingArrived ==
    [][/\ (direction.tag = "Up" /\ RequestedAbove(current_floor_index'))
          => direction'.tag = "Up"
       /\ (direction.tag = "Down" /\ RequestedBelow(current_floor_index'))
          => direction'.tag = "Down"]_vars

\* the car stands with the door closed, committed upwards, a floor below
\* it is requested and a floor above it is called during the tick, which
\* sets the car off upwards
C4_Witness ==
    /\ fault = "none"
    /\ direction = Up(None)
    /\ door = Closed
    /\ RequestedBelow(current_floor_index)
    /\ \E P \in PressedSets :
          /\ \E k \in P : k > current_floor_index
          /\ advance(Car, P, overflow_checks).direction = Up(Some(0))

\* C5: scenario B: the direction becomes Up, then the car is at the index
\* of level 3 with the door Opening, then Open, then Closing, and from then
\* on the door is Closed there with level 3 no longer requested and its
\* indicator off.
C5_ScenarioB ==
    <>(/\ direction.tag = "Up"
       /\ <>(/\ current_floor_index = floor_to_index(3)
              /\ door.tag = "Opening"
              /\ <>(/\ door.tag = "Open"
                     /\ <>(/\ door.tag = "Closing"
                            /\ <>[](/\ current_floor_index = floor_to_index(3)
                                     /\ door = Closed
                                     /\ ~stop[floor_to_index(3)]
                                     /\ ~led[floor_to_index(3)])))))

\* the call of level 3 has been served: the car rests at its index
C5_Witness ==
    /\ current_floor_index = floor_to_index(3)
    /\ direction = Idle
    /\ door = Closed
    /\ ~stop[floor_to_index(3)]
    /\ ~led[floor_to_index(3)]

\* C6: scenario A: while the car is idle with the door closed and nothing
\* requested, a tick without call input leaves direction, door,
\* current_floor_index, the requests and the indicators as they are and
\* emits no repaint and no announcement; so it stays as constructed.
C6_ScenarioA ==
    (fault = "none" /\ direction = Idle /\ door = Closed /\ Requested = {})
    => advance(Car, {}, overflow_checks) = Car

\* the car as constructed, ticked without input
C6_Witness ==
    /\ AtRest
    /\ \A i \in FloorIndices : ~led[i]
    /\ advance(Car, {}, overflow_checks).repaints = 0
    /\ advance(Car, {}, overflow_checks).announced = <<>>

\* the requested floor nearest above i, and nearest below i
NearestAbove(S, i) ==
    CHOOSE k \in S : k > i /\ \A j \in S : j > i => k <= j

NearestBelow(S, i) ==
    CHOOSE k \in S : k < i /\ \A j \in S : j < i => j <= k

\* C7: scenario E: when the car is Idle with the door Closed at index 2 and
\* the nearest requested floors above and below are equally far, a tick
\* that completes selects Down(Some(0)).
C7_TieBreakDown ==
    [][LET S == {k \in FloorIndices : stop'[k]}
       IN  (/\ fault = "none" /\ fault' = "none" /\ direction = Idle
            /\ door = Closed /\ door' = Closed
            /\ current_floor_index = 2
            /\ \E k \in S : k > 2
            /\ \E k \in S : k < 2
            /\ 2 \notin S
            /\ NearestAbove(S, 2) - 2 = 2 - NearestBelow(S, 2))
           => direction' = Down(Some(0))]_vars

\* C8: an Idle car with the door Closed at index i selects, on a tick that
\* completes, Up exactly when the nearest requested floor above is strictly
\* nearer than the nearest requested floor below, and Down otherwise; it
\* goes the only way that has requests when one side has none.
NearestChoice(S, i) ==
    IF (\E k \in S : k > i) /\ (\E k \in S : k < i)
    THEN IF NearestAbove(S, i) - i < i - NearestBelow(S, i)
         THEN Up(Some(0))
         ELSE Down(Some(0))
    ELSE IF \E k \in S : k > i THEN Up(Some(0))
    ELSE Down(Some(0))

C8_NearestRequest ==
    [][LET S == {k \in FloorIndices : stop'[k]}
       IN  (/\ fault = "none" /\ fault' = "none" /\ direction = Idle
            /\ door = Closed /\ door' = Closed
            /\ S # {}
            /\ current_floor_index \notin S)
           => direction' = NearestChoice(S, current_floor_index)]_vars

\* C9: on the tick that takes the door from Closing(100) to Closed the floor
\* the car is at ends with its stop flag clear and its indicator off.
C9_ServedOnClose ==
    [][(door = Closing(100) /\ door' = Closed)
       => (/\ ~stop'[current_floor_index']
           /\ ~led'[current_floor_index'])]_vars

\* the door has just closed behind an arrival: only that tick leaves the
\* door Closed with a direction that has no progress yet
C9_Witness ==
    /\ door = Closed
    /\ direction \in {Up(None), Down(None)}
    /\ ~stop[current_floor_index]
    /\ ~led[current_floor_index]

\* C10: registering a call for a floor that is requested already changes
\* nothing: a tick with that call input asserted ends as the tick without
\* it, and a second request_stop leaves the car as the first did.
C10_Idempotent ==
    fault = "none" =>
        /\ \A P \in PressedSets : \A f \in P \cap Requested :
              advance(Car, P, overflow_checks)
                 = advance(Car, P \ {f}, overflow_checks)
        /\ \A level \in Levels :
              request_stop(request_stop(Car, level).car, level).car
                 = request_stop(Car, level).car

\* the car is idle with the door open at a floor whose call is pending,
\* and that call input is asserted again
C10_Witness ==
    /\ fault = "none"
    /\ direction = Idle
    /\ door.tag = "Open"
    /\ door.progress > 0
    /\ stop[current_floor_index]
    /\ advance(Car, {current_floor_index}, overflow_checks).door
          = Open(door.progress + 2)

\* the levels among Levels that no floor of the table has
AbsentLevels == {l \in Levels : \A i \in FloorIndices : FloorNumber(i) # l}

\* C11: request_stop with a level that no floor of the table has is not
\* fatal: it returns false and leaves the requests, the indicators, the
\* door, the direction and current_floor_index as they were.
C11_AbsentLevelIgnored ==
    fault = "none" =>
        \A level \in AbsentLevels :
            /\ request_stop(Car, level).ret = FALSE
            /\ request_stop(Car, level).car = Car

\* level 0 is requested while the car is under way with a call pending
C11_Witness ==
    /\ fault = "none"
    /\ 0 \in AbsentLevels
    /\ InTransit
    /\ Requested # {}
    /\ request_stop(Car, 0).car.fault = "none"
    /\ request_stop(Car, 0).ret = FALSE

\* C12: scenario D: while the door is Closed and the direction is Up or
\* Down, with or without progress, set_door_open(true) returns false and
\* leaves door, direction, current_floor_index, the requests and the
\* indicators as they were, with no repaint and no announcement.
C12_ScenarioD ==
    (fault = "none" /\ door = Closed /\ direction # Idle)
    => set_door_open(Car, TRUE) = [car |-> Car, ret |-> FALSE]

\* the override is asked for on a car committed downwards that has not
\* started its leg, with a call pending
C12_Witness ==
    /\ fault = "none"
    /\ door = Closed
    /\ direction = Down(None)
    /\ Requested # {}
    /\ set_door_open(Car, TRUE).ret = FALSE
    /\ set_door_open(Car, TRUE).car.repaints = 0

\* the door the documented table of set_door_open gives, and whether the
\* table accepts the request
TableDoor(d, dir, want_open) ==
    IF want_open
    THEN CASE d.tag = "Open" -> Open(0)
           [] d.tag = "Closing" -> Opening(100 - d.progress)
           [] d.tag = "Closed" /\ dir = Idle -> Opening(0)
           [] OTHER -> d
    ELSE IF d.tag = "Open" THEN Closing(0) ELSE d

TableAccepts(d, dir, want_open) ==
    IF want_open
    THEN d.tag \in {"Open", "Closing"} \/ (d.tag = "Closed" /\ dir = Idle)
    ELSE d.tag = "Open"

\* C13: set_door_open follows the documented table in every door state:
\* asked to open, Open(p) becomes Open(0), Closing(p) becomes
\* Opening(100 - p), Closed becomes Opening(0) only when Idle, Opening(p)
\* is rejected; asked to close, Open(p) becomes Closing(0) and every other
\* state is rejected; it returns true exactly for the accepted requests and
\* a rejected request leaves the door as it was.
C13_DoorTable ==
    fault = "none" =>
        \A want_open \in BOOLEAN :
            /\ set_door_open(Car, want_open).car.door
                  = TableDoor(door, direction, want_open)
            /\ set_door_open(Car, want_open).ret
                  = TableAccepts(door, direction, want_open)

\* the door is asked to open again while it is closing, past halfway
C13_Witness ==
    /\ fault = "none"
    /\ door = Closing(65)
    /\ set_door_open(Car, TRUE).ret
    /\ set_door_open(Car, TRUE).car.door = Opening(35)

\* door e follows door d within its phase without losing progress, or
\* starts another phase at progress 0
DoorStepOk(d, e) ==
    IF d.tag = e.tag THEN e.progress >= d.progress ELSE e.progress = 0

\* C14: the progress of the door never decreases while the door stays in
\* the same phase and every change of phase starts the new phase at
\* progress 0, whatever the step: a tick, with or without call inputs, or a
\* set_door_open call.
C14_ProgressMonotone == [][DoorStepOk(door, door')]_vars

\* C14 as amended: the same, but for the three documented restarts:
\* set_door_open(true) takes Open(p) back to Open(0) and turns Closing(p)
\* into Opening(100 - p), and a call of the floor an Idle car stands at
\* sets the door to Opening(0) whatever it was.
C14_ProgressExceptRestarts ==
    [][\/ DoorStepOk(door, door')
       \/ /\ door.tag = "Open"
          /\ door' = Open(0)
          /\ door' = set_door_open(Car, TRUE).car.door
       \/ /\ door.tag = "Closing"
          /\ door' = Opening(100 - door.progress)
          /\ door' = set_door_open(Car, TRUE).car.door
       \/ /\ direction = Idle
          /\ ~stop[current_floor_index]
          /\ stop'[current_floor_index]
          /\ door' = Opening(0)]_vars

\* an Idle car whose door is opening by the override, with its floor not
\* requested, is called at its own floor: the opening starts over
C14_Witness ==
    /\ fault = "none"
    /\ direction = Idle
    /\ door.tag = "Opening"
    /\ door.progress > 0
    /\ ~stop[current_floor_index]
    /\ advance(Car, {current_floor_index}, overflow_checks).door = Opening(0)

\* how many of direction, door and current_floor_index differ between the
\* car s before a call and the car t after it
ChangedFields(s, t) ==
    (IF s.direction # t.direction THEN 1 ELSE 0)
    + (IF s.door # t.door THEN 1 ELSE 0)
    + (IF s.current_floor_index # t.current_floor_index THEN 1 ELSE 0)

\* C15: the repaint sink is called once for each of direction, door and
\* current_floor_index that a call of advance() or set_door_open() changes
\* and not for an assignment of the value already held; a call that leaves
\* the three as they were calls it not at all.
C15_RepaintPerChange ==
    fault = "none" =>
        /\ \A P \in PressedSets :
              LET t == advance(Car, P, overflow_checks)
              IN  t.repaints = ChangedFields(Car, t)
        /\ \A value \in BOOLEAN :
              LET t == set_door_open(Car, value).car
              IN  t.repaints = ChangedFields(Car, t)

\* the door has just become fully open: the override assigns Open(0) once
\* more, which is accepted without a repaint, while a tick repaints once
C15_Witness ==
    /\ fault = "none"
    /\ door = Open(0)
    /\ set_door_open(Car, TRUE).ret
    /\ set_door_open(Car, TRUE).car.repaints = 0
    /\ advance(Car, {}, overflow_checks).repaints = 1

\* the direction the arrival rule gives at floor i with the floors S
\* requested: onwards if a request lies beyond i, else back if a request
\* lies behind, else Idle (the progress is left open)
ArrivalRuleTag(S, i, tag) ==
    LET beyond == IF tag = "Up" THEN {k \in S : k > i} ELSE {k \in S : k < i}
        behind == IF tag = "Up" THEN {k \in S : k < i} ELSE {k \in S : k > i}
    IN  IF beyond # {} THEN tag
        ELSE IF behind # {} THEN (IF tag = "Up" THEN "Down" ELSE "Up")
        ELSE "Idle"

\* C16: on the tick that takes the car, at progress 100, to the next floor
\* and finds that floor requested, the direction becomes the same direction
\* if a floor beyond it that way is requested, otherwise the opposite
\* direction if a floor behind it is requested, otherwise Idle.
C16_ArrivalDirection ==
    [][(/\ fault = "none" /\ fault' = "none"
        /\ door = Closed
        /\ direction \in {Up(Some(100)), Down(Some(100))}
        /\ current_floor_index' # current_floor_index
        /\ stop'[current_floor_index'])
       => direction'.tag
             = ArrivalRuleTag({k \in FloorIndices : stop'[k]},
                              current_floor_index', direction.tag)]_vars

\* a tick that starts with the door Closed at progress 100 and ends with
\* the car at another floor of the table
ArrivalTick ==
    /\ fault = "none"
    /\ door = Closed
    /\ direction \in {Up(Some(100)), Down(Some(100))}
    /\ current_floor_index' \in FloorIndices
    /\ current_floor_index' # current_floor_index

\* C17: on an arrival tick the door becomes Opening(0) exactly when the
\* floor arrived at is requested, a call registered during the leg or on
\* the arrival tick included; when it is not requested the door stays
\* Closed and the car goes on the same way with progress Some(0).
C17_OpensIffRequested ==
    [][ArrivalTick =>
          /\ (door' = Opening(0)) <=> stop'[current_floor_index']
          /\ ~stop'[current_floor_index'] =>
                /\ door' = Closed
                /\ direction' = [direction EXCEPT !.value = Some(0)]]_vars

\* the car is about to arrive at a floor that is not requested, and that
\* floor's call input is asserted on the arrival tick itself
C17_Witness ==
    /\ fault = "none"
    /\ door = Closed
    /\ direction = Up(Some(100))
    /\ {current_floor_index + 1} \in PressedSets
    /\ ~stop[current_floor_index + 1]
    /\ advance(Car, {current_floor_index + 1}, overflow_checks).door
          = Opening(0)
    /\ advance(Car, {}, overflow_checks).door = Closed

\* C18: on a tick where the car is Idle and the call input of its own
\* floor is asserted and not yet requested, advance() marks the floor
\* requested, lights its indicator, sets the door to Opening(0) and ends:
\* the door phase and the motion do not advance, no direction is selected,
\* nothing is announced, direction and current_floor_index stay.
C18_OwnFloorCapture ==
    (fault = "none" /\ direction = Idle /\ ~stop[current_floor_index])
    => \A P \in PressedSets :
          current_floor_index \in P =>
             LET t == advance(Car, P, overflow_checks)
             IN  /\ t.fault = "none"
                 /\ t.stop[current_floor_index]
                 /\ t.led[current_floor_index]
                 /\ t.door = Opening(0)
                 /\ t.direction = direction
                 /\ t.current_floor_index = current_floor_index
                 /\ t.announced = <<>>
                 /\ t.repaints = IF door = Opening(0) THEN 0 ELSE 1

\* an Idle car whose door stands open by the override is called at its own
\* floor and at a floor below in the same tick: both calls are registered,
\* the door starts to open, no direction is selected
C18_Witness ==
    /\ fault = "none"
    /\ direction = Idle
    /\ door.tag = "Open"
    /\ door.progress > 0
    /\ ~stop[current_floor_index]
    /\ \E k \in FloorIndices :
          /\ k < current_floor_index
          /\ ~stop[k]
          /\ {k, current_floor_index} \in PressedSets
          /\ advance(Car, {k, current_floor_index}, overflow_checks).stop[k]
          /\ advance(Car, {k, current_floor_index}, overflow_checks).direction
                = Idle
          /\ advance(Car, {k, current_floor_index}, overflow_checks).door
                = Opening(0)

\* the door one tick after door d, by the timing of the door phases
DoorTick(d) ==
    CASE d.tag = "Opening" ->
           IF d.progress = 100 THEN Open(0) ELSE Opening(d.progress + 5)
      [] d.tag = "Open" ->
           IF d.progress = 100 THEN Closing(0) ELSE Open(d.progress + 2)
      [] d.tag = "Closing" ->
           IF d.progress = 100 THEN Closed ELSE Closing(d.progress + 5)
      [] OTHER -> d

\* C19: without a set_door_open call and without an own-floor call capture
\* in between, a tick adds 5 to the progress of Opening and Closing and 2
\* to the progress of Open, so that t ticks after Opening(0) or Closing(0)
\* the progress is 5 t (100 after exactly 20 ticks) and t ticks after
\* Open(0) it is 2 t (100 after exactly 50 ticks); at progress 100 the next
\* tick takes Opening to Open(0), Open to Closing(0), Closing to Closed.
C19_DoorTiming ==
    (fault = "none" /\ door.tag # "Closed") =>
        /\ ticks >= 0 =>
              door.progress = (IF door.tag = "Open" THEN 2 ELSE 5) * ticks
        /\ \A P \in PressedSets :
              ~(/\ direction = Idle
                /\ current_floor_index \in P
                /\ ~stop[current_floor_index])
              => advance(Car, P, overflow_checks).door = DoorTick(door)

\* the door has been open for 50 ticks and the next tick starts to close it
C19_Witness ==
    /\ fault = "none"
    /\ door = Open(100)
    /\ ticks = 50
    /\ advance(Car, {}, overflow_checks).door = Closing(0)

\* the car is on a leg: door Closed, direction Up(Some(p)) or Down(Some(p))
OnLeg == door = Closed /\ IsSome(direction.value)

\* C20: while the door is Closed and the direction is Up(Some(p)) or
\* Down(Some(p)) with p < 100 a tick adds exactly 2 to p and leaves
\* current_floor_index as it is, so that t ticks after Some(0) the progress
\* is 2 t and Some(100) is reached after exactly 50 ticks;
\* current_floor_index changes only on a tick that starts with the door
\* Closed at progress Some(100), by +1 going up and by -1 going down.
C20_LegTiming ==
    /\ []((fault = "none" /\ OnLeg) => Unwrap(direction.value) = 2 * ticks)
    /\ [][/\ (fault = "none" /\ OnLeg /\ Unwrap(direction.value) < 100)
             => /\ direction'
                      = [direction EXCEPT !.value = Some(Unwrap(@) + 2)]
                /\ door' = Closed
                /\ current_floor_index' = current_floor_index
          /\ current_floor_index' # current_floor_index
             => /\ door = Closed
                /\ direction \in {Up(Some(100)), Down(Some(100))}
                /\ current_floor_index'
                      = current_floor_index
                        + (IF direction.tag = "Up" THEN 1 ELSE -1)]_vars

\* the car has been on its leg down for 50 ticks and the next tick takes
\* it to the floor below
C20_Witness ==
    /\ fault = "none"
    /\ door = Closed
    /\ direction = Down(Some(100))
    /\ ticks = 50
    /\ advance(Car, {}, overflow_checks).current_floor_index
          = current_floor_index - 1

\* the door is Closed and the car is on no leg: the states in which a tick
\* runs the floor selection
Selecting == door = Closed /\ ~IsSome(direction.value)

\* C21: every run of the floor selection that commits to Up emits the
\* going-up cue and nothing else, every run that commits to Down the
\* going-down cue and nothing else, each with exactly one repaint for the
\* change of direction; a selection of Idle announces nothing.
C21_SelectionAnnounces ==
    (fault = "none" /\ Selecting) =>
        \A P \in PressedSets :
            LET t == advance(Car, P, overflow_checks)
            IN  (t.fault = "none" /\ t.door = Closed) =>
                   /\ t.direction = Up(Some(0)) =>
                         (t.announced = <<CueUp>> /\ t.repaints = 1)
                   /\ t.direction = Down(Some(0)) =>
                         (t.announced = <<CueDown>> /\ t.repaints = 1)
                   /\ t.direction = Idle => t.announced = <<>>
                   /\ t.direction \in {Up(Some(0)), Down(Some(0)), Idle}

\* the car stands committed downwards after a stop and the only call comes
\* from above: the selection turns it round with the going-up cue
C21_Witness ==
    /\ fault = "none"
    /\ door = Closed
    /\ direction = Down(None)
    /\ Requested = {}
    /\ \E k \in FloorIndices :
          /\ k > current_floor_index
          /\ {k} \in PressedSets
          /\ advance(Car, {k}, overflow_checks).direction = Up(Some(0))
          /\ advance(Car, {k}, overflow_checks).announced = <<CueUp>>

C23_ClearedOnlyOnClose ==
    [][\A i \in FloorIndices :
          (stop[i] /\ ~stop'[i])
          => /\ door = Closing(100)
             /\ door' = Closed
             /\ current_floor_index = i
             /\ current_floor_index' = i]_vars

\* the door is about to close on a requested floor while another floor is
\* requested too: the tick clears the one and keeps the other
C23_Witness ==
    /\ fault = "none"
    /\ door = Closing(100)
    /\ stop[current_floor_index]
    /\ ~advance(Car, {}, overflow_checks).stop[current_floor_index]
    /\ \E k \in FloorIndices :
          /\ k # current_floor_index
          /\ stop[k]
          /\ advance(Car, {}, overflow_checks).stop[k]

\* the car rests with every request served
AllServed == direction = Idle /\ door = Closed /\ Requested = {}

\* C24: every request is eventually served: if from some step on every
\* step is a tick without call input (no call input is asserted and
\* set_door_open is not called any more) while advance() keeps being
\* called, then the car eventually rests Idle with the door Closed and no
\* floor requested.
C24_EventuallyServed == <>[][Advance({})]_vars => <>[]AllServed

\* C25: the car only starts a leg toward a pending request: when the floor
\* selection commits to Up(Some(0)) a floor with an index greater than
\* current_floor_index is requested, when it commits to Down(Some(0)) a
\* floor with a smaller index is; a request for the floor the car stands
\* at never makes it depart.
C25_DepartsTowardRequest ==
    [][(fault = "none" /\ Selecting)
       => /\ direction' = Up(Some(0))
             => \E k \in FloorIndices : k > current_floor_index /\ stop'[k]
          /\ direction' = Down(Some(0))
             => \E k \in FloorIndices : k < current_floor_index /\ stop'[k]]_vars

\* p is on the grid of step `step` between 0 and 100
OnGrid(p, step) == 0 <= p /\ p <= 100 /\ p % step = 0

\* C26: in every reachable state the progress of Opening and Closing is a
\* multiple of 5 no greater than 100 and the progress of Open and of the
\* leg is even and no greater than 100, also after set_door_open(true) has
\* turned Closing(p) into Opening(100 - p); so the test for 100 is always
\* met and no u8 progress overshoots or wraps.
C26_ProgressGrid ==
    /\ door.tag \in {"Opening", "Closing"} => OnGrid(door.progress, 5)
    /\ door.tag = "Open" => OnGrid(door.progress, 2)
    /\ IsSome(direction.value) => OnGrid(Unwrap(direction.value), 2)

\* the door is opening again from 65 after the override has reversed a
\* door that was closing
C26_Witness ==
    /\ fault = "none"
    /\ door = Opening(65)
    /\ ticks < 0
====
